---------------------------- MODULE Spec2Model ----------------------------
(***************************************************************************)
(* A model of generate_fhir_data.py: the naming transforms                 *)
(* (apply_case_style and the three converters), the type unwrapping, the   *)
(* recursive schema flattener flatten_schema run as an explicit call       *)
(* stack, and the de-duplication loop of main.                             *)
(*                                                                         *)
(* A Python str is a sequence of one-character strings, so that the        *)
(* converters work character by character as the code does.                *)
(***************************************************************************)
EXTENDS Integers, Sequences, FiniteSets, TLC

(***************************************************************************)
(* Bounds of the model.                                                    *)
(***************************************************************************)
\* longest input string handed to the naming transforms
MaxLen == 4
\* largest max_depth a configuration is drawn with
MaxDepth == 2
\* largest max_array_items a configuration is drawn with
MaxItems == 2
\* most words of an identifier handed to the naming transforms
MaxWords == 2
\* longest word of such an identifier
MaxWordLen == 3
\* most Optional and List wrappers around the base of a type hint
MaxWrappers == 3
\* most calls of generate_value on one generator
MaxCalls == 3

(***************************************************************************)
(* Characters.                                                             *)
(***************************************************************************)
LowerChars ==
  << "a", "b", "c", "d", "e", "f", "g", "h", "i", "j", "k", "l", "m",
     "n", "o", "p", "q", "r", "s", "t", "u", "v", "w", "x", "y", "z" >>

UpperChars ==
  << "A", "B", "C", "D", "E", "F", "G", "H", "I", "J", "K", "L", "M",
     "N", "O", "P", "Q", "R", "S", "T", "U", "V", "W", "X", "Y", "Z" >>

DigitChars == << "0", "1", "2", "3", "4", "5", "6", "7", "8", "9" >>

\* str.islower() of one character
islower(c) == \E i \in DOMAIN LowerChars : LowerChars[i] = c

\* str.isupper() of one character
isupper(c) == \E i \in DOMAIN UpperChars : UpperChars[i] = c

\* str.lower() of one character
lower(c) ==
  IF isupper(c)
  THEN LowerChars[CHOOSE i \in DOMAIN UpperChars : UpperChars[i] = c]
  ELSE c

\* str.upper() of one character
upper(c) ==
  IF islower(c)
  THEN UpperChars[CHOOSE i \in DOMAIN LowerChars : LowerChars[i] = c]
  ELSE c

\* ''.join(parts), from part k on
RECURSIVE join_from(_, _)
join_from(parts, k) ==
  IF k > Len(parts) THEN << >> ELSE parts[k] \o join_from(parts, k + 1)

\* ''.join(parts).  Here and below, CHOOSE r \in {f(v) : v \in {e}} : TRUE is
\* f(e) with e worked out once, as a Python variable holds a value; a LET or an
\* argument stands for its expression, worked out anew at each use.
join(parts) == CHOOSE r \in {join_from(p, 1) : p \in {parts}} : TRUE

\* the pieces of name between the underscores from position k on, the piece
\* under way having begun at position start
RECURSIVE split_from(_, _, _)
split_from(name, start, k) ==
  IF k > Len(name) THEN << SubSeq(name, start, Len(name)) >>
  ELSE IF name[k] = "_"
       THEN << SubSeq(name, start, k - 1) >> \o split_from(name, k + 1, k + 1)
       ELSE split_from(name, start, k + 1)

\* name.split('_'): the pieces between the underscores, empty pieces kept
split(name) == CHOOSE r \in {split_from(n, 1, 1) : n \in {name}} : TRUE

\* word.capitalize(): first character upper case, the rest lower case
capitalize(word) ==
  [i \in DOMAIN word |-> IF i = 1 THEN upper(word[i]) ELSE lower(word[i])]

\* f"{i}" of an int
RECURSIVE str(_)
str(i) ==
  IF i < 0 THEN << "-" >> \o str(0 - i)
  ELSE IF i < 10 THEN << DigitChars[i + 1] >>
  ELSE str(i \div 10) \o << DigitChars[(i % 10) + 1] >>

(***************************************************************************)
(* Naming transforms.                                                      *)
(***************************************************************************)
\* the loop body with the test on the following character left out
snake_step_after_lower(name, i) ==
  IF isupper(name[i]) /\ i > 1 /\ islower(name[i - 1])
  THEN << "_", lower(name[i]) >>
  ELSE << lower(name[i]) >>

\* the characters the loop of to_snake_case appends for position i
snake_step(name, i) ==
  IF /\ isupper(name[i])
     /\ i > 1
     /\ \/ islower(name[i - 1])
        \/ (i + 1 <= Len(name) /\ islower(name[i + 1]))
  THEN << "_", lower(name[i]) >>
  ELSE << lower(name[i]) >>

to_snake_case(name) ==
  CHOOSE r \in {join([i \in DOMAIN n |-> snake_step(n, i)]) : n \in {name}} : TRUE

\* line 559 with the first part capitalised as the others are
camel_join_capitalized(parts) ==
  join([k \in DOMAIN parts |-> capitalize(parts[k])])

\* line 559, parts being name.split('_')
camel_join(parts) ==
  parts[1] \o join([k \in 1..(Len(parts) - 1) |-> capitalize(parts[k + 1])])

to_camel_case(name) ==
  CHOOSE r \in {camel_join(parts) : parts \in {split(to_snake_case(name))}} : TRUE

\* line 564, parts being name.split('_')
pascal_join(parts) ==
  join([k \in DOMAIN parts |-> capitalize(parts[k])])

to_pascal_case(name) ==
  CHOOSE r \in {pascal_join(parts) : parts \in {split(to_snake_case(name))}} : TRUE

apply_case_style(name, style) ==
  IF style = "snake" THEN to_snake_case(name)
  ELSE IF style = "camel" THEN to_camel_case(name)
  ELSE IF style = "pascal" THEN to_pascal_case(name)
  ELSE name

Styles == {"snake", "camel", "pascal", "other"}


(***************************************************************************)
(* Types.  A type hint is the sequence of its wrappers, outermost first,   *)
(* ending in its base: Optional[List[Address]] is                          *)
(* <<"Optional", "List", "Address">>.  "Optional" is Union[X, None];       *)
(* "Union" is a Union with two non-None arguments, Union[X, int], X being  *)
(* the rest of the sequence; <<"List">> alone is a List without arguments. *)
(* The bases are the primitives, the model classes and "Any".              *)
(***************************************************************************)
Primitives == {"str", "int", "float", "bool", "NoneType"}

ModelClasses == {"Patient", "Address", "Node", "Record", "Part"}

\* get_origin(t) for the wrappers of the model, "" for a type that has none
get_origin(t) ==
  IF Head(t) \in {"Optional", "Union"} THEN "Union"
  ELSE IF Head(t) = "List" THEN "List"
  ELSE ""

\* the arguments of a Union that are not NoneType
non_none_args(t) ==
  IF Head(t) = "Optional" THEN << Tail(t) >> ELSE << Tail(t), << "int" >> >>

\* get_args(t) of a List
list_args(t) == IF Len(t) > 1 THEN << Tail(t) >> ELSE << >>

RECURSIVE unwrap_optional_and_list(_)

\* lines 442-456: the Union branch; the flags and the type it leaves
unwrap_union(field_type) ==
  IF get_origin(field_type) = "Union"
  THEN IF Len(non_none_args(field_type)) = 1
       THEN [is_optional |-> TRUE,
             is_list |-> unwrap_optional_and_list(non_none_args(field_type)[1]).is_list,
             inner_type |->
               unwrap_optional_and_list(non_none_args(field_type)[1]).inner_type]
       ELSE [is_optional |-> FALSE, is_list |-> FALSE,
             inner_type |-> non_none_args(field_type)[1]]
  ELSE [is_optional |-> FALSE, is_list |-> FALSE, inner_type |-> field_type]

\* the List branch without the unwrapping of the element type
unwrap_list_shallow(first) ==
  IF get_origin(first.inner_type) = "List" /\ list_args(first.inner_type) # << >>
  THEN [is_optional |-> first.is_optional, is_list |-> TRUE,
        inner_type |-> list_args(first.inner_type)[1]]
  ELSE first

\* lines 458-466: the List branch, on what the Union branch left
unwrap_list(first) ==
  IF get_origin(first.inner_type) = "List"
  THEN IF list_args(first.inner_type) # << >>
       THEN [is_optional |-> first.is_optional, is_list |-> TRUE,
             inner_type |->
               unwrap_optional_and_list(list_args(first.inner_type)[1]).inner_type]
       ELSE [is_optional |-> first.is_optional, is_list |-> TRUE,
             inner_type |-> first.inner_type]
  ELSE first

unwrap_optional_and_list(field_type) ==
  CHOOSE r \in {unwrap_list(first) : first \in {unwrap_union(field_type)}} : TRUE

RECURSIVE is_primitive_type(_)
is_primitive_type(type_hint) ==
  IF Len(type_hint) = 1 /\ Head(type_hint) \in Primitives THEN TRUE
  ELSE IF Head(type_hint) = "Optional" THEN is_primitive_type(Tail(type_hint))
  ELSE IF Head(type_hint) = "Union" THEN is_primitive_type(Tail(type_hint))
  ELSE FALSE

is_pydantic_model(cls) == Len(cls) = 1 /\ Head(cls) \in ModelClasses

(***************************************************************************)
(* The resource models the flattener is run on.  A field_info carries its  *)
(* type under one of the attributes get_field_type looks for, or under     *)
(* none of them.                                                           *)
(***************************************************************************)
n_name == << "n", "a", "m", "e" >>
n_address == << "a", "d", "d", "r", "e", "s", "s" >>
n_line == << "l", "i", "n", "e" >>
n_next == << "n", "e", "x", "t" >>
n_kids == << "k", "i", "d", "s" >>
n_givenName == << "g", "i", "v", "e", "n", "N", "a", "m", "e" >>
n_given_name == << "g", "i", "v", "e", "n", "_", "n", "a", "m", "e" >>
n_tags == << "t", "a", "g", "s" >>
n_meta == << "m", "e", "t", "a" >>
n_items == << "i", "t", "e", "m", "s" >>
n_owner == << "o", "w", "n", "e", "r" >>
n_record == << "r", "e", "c", "o", "r", "d" >>

Field(name, attr, type) == [name |-> name, attr |-> attr, type |-> type]

ModelFields ==
  [c \in ModelClasses |->
     CASE c = "Patient" ->
            << Field(n_name, "annotation", << "str" >>),
               Field(n_address, "annotation", << "List", "Address" >>) >>
       [] c = "Address" ->
            << Field(n_line, "annotation", << "str" >>) >>
       [] c = "Node" ->
            << Field(n_name, "outer_type_", << "Optional", "str" >>),
               Field(n_next, "outer_type_", << "Optional", "Node" >>),
               Field(n_kids, "outer_type_", << "List", "Node" >>) >>
       [] c = "Record" ->
            << Field(n_givenName, "annotation", << "str" >>),
               Field(n_given_name, "annotation", << "Optional", "str" >>),
               Field(n_tags, "annotation", << "List", "str" >>),
               Field(n_meta, "none", << >>),
               Field(n_items, "type_", << "List", "Any" >>),
               Field(n_address, "annotation", << "Optional", "List", "Part" >>),
               Field(n_owner, "annotation", << "Optional", "Part" >>) >>
       [] c = "Part" ->
            << Field(n_name, "annotation", << "Union", "str" >>),
               Field(n_line, "annotation", << "List" >>),
               Field(n_record, "annotation", << "List", "Optional", "Record" >>) >>]

\* get_model_fields: the fields of a model class in their own order
get_model_fields(model_cls) ==
  IF model_cls \in ModelClasses THEN ModelFields[model_cls] ELSE << >>

get_field_type(field_info) ==
  IF field_info.attr \in {"outer_type_", "annotation", "type_"}
  THEN field_info.type
  ELSE << "Any" >>

(***************************************************************************)
(* State.                                                                  *)
(*   model_cls, config   the arguments main hands to flatten_schema        *)
(*   stack               the activations of flatten_schema, innermost last *)
(*   columns             the list flatten_schema returned to main          *)
(*   unique_columns, seen, col   the de-duplication loop of main           *)
(*   pc                  where main is                                     *)
(*   name, applied, values   a string, the case styles applied to it so    *)
(*                       far and the result of each application            *)
(*   field_type, unwrap_returned   a type hint and what                    *)
(*                       unwrap_optional_and_list returned for it          *)
(*   resource_name, counter, used_ids   a FHIRDataGenerator                *)
(* History variables, written and never read by the program's steps:       *)
(*   each activation's path and paths, and column_paths: for every call    *)
(*   and every column, the fields and list indices from the root to it;    *)
(*   reached: the model classes whose fields were iterated;                *)
(*   calls: for every call of generate_value, its column name, the value   *)
(*   returned and the counter before and after.                            *)
(***************************************************************************)
VARIABLES model_cls, config, stack, columns, column_paths, reached,
          unique_columns, seen, col, pc, name, applied, values,
          field_type, unwrap_returned, resource_name, counter, used_ids, calls

vars == << model_cls, config, stack, columns, column_paths, reached,
           unique_columns, seen, col, pc, name, applied, values,
           field_type, unwrap_returned, resource_name, counter, used_ids, calls >>

flatten_vars == << model_cls, config, stack, columns, column_paths, reached,
                   unique_columns, seen, col, pc >>

case_vars == << name, applied, values >>

type_vars == << field_type, unwrap_returned >>

generator_vars == << resource_name, counter, used_ids, calls >>

(***************************************************************************)
(* Configuration: config['schema'], with the defaults of flatten_schema.   *)
(***************************************************************************)
DefaultMaxDepth == 3
DefaultMaxArrayItems == 3

get(d, key, default) == IF key \in DOMAIN d THEN d[key] ELSE default

schema_config == get(config, "schema", << >>)
max_depth == get(schema_config, "max_depth", DefaultMaxDepth)
separator == get(schema_config, "separator", << "_" >>)
case_style == get(schema_config, "case", "snake")
exclude_fields == get(schema_config, "exclude_fields", {})
include_fields == get(schema_config, "include_fields", {})
max_array_items == get(schema_config, "max_array_items", DefaultMaxArrayItems)

Separators == { << "_" >>, << "." >> }
IncludeSets == { {}, {n_address}, {n_name, n_address} }
ExcludeSets == { {}, {n_name}, {n_line} }
RootClasses == {"Patient", "Node", "Record"}

SchemaConfigs ==
  [max_depth : (-1)..MaxDepth, separator : Separators, case : Styles,
   exclude_fields : ExcludeSets, include_fields : IncludeSets,
   max_array_items : (-1)..MaxItems]

\* a configuration for a resource type, with its schema section or without one
Configs(resource_type) ==
  {[resource_type |-> resource_type, schema |-> sc] : sc \in SchemaConfigs}
    \cup {[resource_type |-> resource_type]}

(***************************************************************************)
(* flatten_schema, one activation per stack entry.                         *)
(***************************************************************************)
Frame(cls, prefix, depth, path) ==
  [model_cls |-> cls, prefix |-> prefix, depth |-> depth, at |-> "entry",
   field |-> 1, i |-> 0, columns |-> << >>, paths |-> << >>, path |-> path]

top == stack[Len(stack)]
fields == get_model_fields(top.model_cls)
field_info == fields[top.field]
field_name == field_info.name
unwrapped == unwrap_optional_and_list(get_field_type(field_info))
is_list == unwrapped.is_list
inner_type == unwrapped.inner_type

\* the two questions flatten_schema asks of inner_type
inner_is_primitive == \E t \in {inner_type} : is_primitive_type(t)
\* anything that is not a primitive taken for a model
inner_is_not_primitive == ~inner_is_primitive

inner_is_model == \E t \in {inner_type} : is_pydantic_model(t)

column_base ==
  IF top.prefix # << >> THEN top.prefix \o separator \o field_name ELSE field_name

column_name == apply_case_style(column_base, case_style)

\* an indexed name without the separator before the index
indexed_prefix_glued(i) == column_base \o str(i)

\* an indexed name built on the case-transformed name of the field
indexed_prefix_cased(i) ==
  apply_case_style(column_base, case_style) \o separator \o str(i)

indexed_prefix(i) == column_base \o separator \o str(i)

\* a range that is never empty
range_one(n) == [k \in 1..(IF n > 1 THEN n ELSE 1) |-> k - 1]

\* a range taken from its far end
range_desc(n) == [k \in 1..n |-> n - k]

\* a range that takes a negative length for its size
range_abs(n) == [k \in 1..(IF n < 0 THEN 0 - n ELSE n) |-> k - 1]

\* range(n), in the order the for loop takes it
range(n) == [k \in 1..n |-> k - 1]

\* the list index the loop over range(max_array_items) is at
index == range(max_array_items)[top.i + 1]

\* the history entry of the field under way, at list index i (-1: not a list item)
Step(i) == [cls |-> top.model_cls, f |-> top.field, i |-> i]

InFlatten == pc = "flatten" /\ stack # << >>

\* the loop of flatten_schema is at a field
AtField == InFlatten /\ top.at = "fields" /\ top.field <= Len(fields)

\* an exclusion that a mention in include_fields overrides
excluded_unless_included ==
  field_name \in exclude_fields /\ field_name \notin include_fields

excluded == field_name \in exclude_fields

\* an inclusion filter applied at every depth
not_included_any_depth ==
  include_fields # {} /\ field_name \notin include_fields

not_included ==
  include_fields # {} /\ top.depth = 0 /\ field_name \notin include_fields

\* the field under way passed both filters
Passes == AtField /\ ~excluded /\ ~not_included

\* the stack with its innermost activation changed
SetTop(f) == [stack EXCEPT ![Len(stack)] = f]

\* the activation at the top returns cols: to its caller's columns.extend, or to main
Return(cols, pths) ==
  IF Len(stack) = 1
  THEN /\ stack' = << >>
       /\ columns' = cols
       /\ column_paths' = pths
       /\ pc' = "main"
  ELSE /\ stack' = SubSeq(stack, 1, Len(stack) - 2) \o
                     << [stack[Len(stack) - 1] EXCEPT
                           !.columns = @ \o cols, !.paths = @ \o pths] >>
       /\ UNCHANGED << columns, column_paths, pc >>

\* a cutoff that lets the call at depth max_depth through
cutoff_gt == top.depth > max_depth

\* a cutoff that only recursive calls make
cutoff_nested == top.depth > 0 /\ top.depth >= max_depth

\* line 486: depth >= schema_config.get('max_depth', 3)
cutoff == top.depth >= max_depth

\* lines 486-487: the depth cutoff returns [] for the whole call
DepthCutoff ==
  /\ InFlatten
  /\ top.at = "entry"
  /\ cutoff
  /\ Return(<< >>, << >>)
  /\ UNCHANGED << model_cls, config, reached, unique_columns, seen, col, case_vars, type_vars,
                  generator_vars >>

\* lines 489-496: past the cutoff, the loop over the fields starts
Enter ==
  /\ InFlatten
  /\ top.at = "entry"
  /\ ~cutoff
  /\ stack' = SetTop([top EXCEPT !.at = "fields"])
  /\ reached' = reached \cup {top.model_cls}
  /\ UNCHANGED << model_cls, config, columns, column_paths, unique_columns, seen,
                  col, pc, case_vars, type_vars,
                  generator_vars >>

\* the loop goes on to the next field, cols appended to columns
NextField(cols, pths) ==
  /\ stack' = SetTop([top EXCEPT !.at = "fields", !.field = @ + 1,
                                 !.columns = @ \o cols, !.paths = @ \o pths])
  /\ UNCHANGED << model_cls, config, columns, column_paths, reached,
                  unique_columns, seen, col, pc, case_vars, type_vars,
                  generator_vars >>

\* lines 499-500
SkipExcluded ==
  /\ AtField
  /\ excluded
  /\ NextField(<< >>, << >>)

\* lines 502-503
SkipNotIncluded ==
  /\ AtField
  /\ ~excluded
  /\ not_included
  /\ NextField(<< >>, << >>)

\* lines 516-519: a list of primitives gives one column per index
EmitPrimitiveList ==
  /\ Passes
  /\ is_list
  /\ inner_is_primitive
  /\ LET r == range(max_array_items)
     IN  NextField([k \in DOMAIN r |-> apply_case_style(indexed_prefix(r[k]), case_style)],
                   [k \in DOMAIN r |-> top.path \o << Step(r[k]) >>])

\* line 521: the loop over the indices of a list of anything else starts
BeginItems ==
  /\ Passes
  /\ is_list
  /\ ~inner_is_primitive
  /\ stack' = SetTop([top EXCEPT !.at = "items", !.i = 0])
  /\ UNCHANGED << model_cls, config, columns, column_paths, reached,
                  unique_columns, seen, col, pc, case_vars, type_vars,
                  generator_vars >>

AtItem == InFlatten /\ top.at = "items" /\ top.i < Len(range(max_array_items))

\* lines 523-524: a list of models recurses once per index
ItemRecurse ==
  /\ AtItem
  /\ inner_is_model
  /\ stack' = SetTop([top EXCEPT !.i = @ + 1]) \o
                << Frame(Head(inner_type), indexed_prefix(index), top.depth + 1,
                         top.path \o << Step(index) >>) >>
  /\ UNCHANGED << model_cls, config, columns, column_paths, reached,
                  unique_columns, seen, col, pc, case_vars, type_vars,
                  generator_vars >>

\* lines 525-526: a list of an unrecognised type gives one column per index
ItemLeaf ==
  /\ AtItem
  /\ ~inner_is_model
  /\ stack' = SetTop([top EXCEPT
                        !.i = @ + 1,
                        !.columns = Append(@, apply_case_style(indexed_prefix(index),
                                                               case_style)),
                        !.paths = Append(@, top.path \o << Step(index) >>)])
  /\ UNCHANGED << model_cls, config, columns, column_paths, reached,
                  unique_columns, seen, col, pc, case_vars, type_vars,
                  generator_vars >>

\* range(max_array_items) is exhausted
EndItems ==
  /\ InFlatten
  /\ top.at = "items"
  /\ ~(top.i < Len(range(max_array_items)))
  /\ NextField(<< >>, << >>)

\* lines 528-529: a model that is not in a list recurses
Recurse ==
  /\ Passes
  /\ ~is_list
  /\ inner_is_model
  /\ stack' = SetTop([top EXCEPT !.field = @ + 1]) \o
                << Frame(Head(inner_type), column_base, top.depth + 1,
                         top.path \o << Step(-1) >>) >>
  /\ UNCHANGED << model_cls, config, columns, column_paths, reached,
                  unique_columns, seen, col, pc, case_vars, type_vars,
                  generator_vars >>

\* lines 530-531: anything else is a leaf
EmitLeaf ==
  /\ Passes
  /\ ~is_list
  /\ ~inner_is_model
  /\ NextField(<< column_name >>, << top.path \o << Step(-1) >> >>)

\* line 533
ReturnColumns ==
  /\ InFlatten
  /\ top.at = "fields"
  /\ top.field > Len(fields)
  /\ Return(top.columns, top.paths)
  /\ UNCHANGED << model_cls, config, reached, unique_columns, seen, col, case_vars, type_vars,
                  generator_vars >>

(***************************************************************************)
(* flatten_schema as the function of its arguments that it is: the list    *)
(* returned for a model class, a configuration, a prefix and a depth.      *)
(***************************************************************************)
RECURSIVE flatten_schema(_, _, _, _)

\* lines 498-531: what one turn of the loop, for the k-th field, adds to columns
flatten_field(cls, cfg, prefix, depth, k) ==
  LET sc == get(cfg, "schema", << >>)
      sep == get(sc, "separator", << "_" >>)
      style == get(sc, "case", "snake")
      include == get(sc, "include_fields", {})
      items == range(get(sc, "max_array_items", DefaultMaxArrayItems))
      info == get_model_fields(cls)[k]
      type == unwrap_optional_and_list(get_field_type(info))
      base == IF prefix # << >> THEN prefix \o sep \o info.name ELSE info.name
      indexed(i) == base \o sep \o str(i)
  IN  IF info.name \in get(sc, "exclude_fields", {}) THEN << >>
      ELSE IF include # {} /\ depth = 0 /\ info.name \notin include THEN << >>
      ELSE IF type.is_list
      THEN IF is_primitive_type(type.inner_type)
           THEN [n \in DOMAIN items |-> apply_case_style(indexed(items[n]), style)]
           ELSE join([n \in DOMAIN items |->
                        IF is_pydantic_model(type.inner_type)
                        THEN flatten_schema(Head(type.inner_type), cfg,
                                            indexed(items[n]), depth + 1)
                        ELSE << apply_case_style(indexed(items[n]), style) >>])
      ELSE IF is_pydantic_model(type.inner_type)
           THEN flatten_schema(Head(type.inner_type), cfg, base, depth + 1)
           ELSE << apply_case_style(base, style) >>

\* lines 482-533
flatten_schema(cls, cfg, prefix, depth) ==
  IF depth >= get(get(cfg, "schema", << >>), "max_depth", DefaultMaxDepth)
  THEN << >>
  ELSE join([k \in DOMAIN get_model_fields(cls) |->
               flatten_field(cls, cfg, prefix, depth, k)])

(***************************************************************************)
(* main: the call of flatten_schema and the de-duplication of its result.  *)
(***************************************************************************)
\* lines 744-809: the configuration is loaded, its resource class looked up
\* and flatten_schema(resource_class, config) called
LoadConfig ==
  /\ pc = "start"
  /\ \E resource_type \in RootClasses :
       /\ model_cls' = resource_type
       /\ config' \in Configs(resource_type)
       /\ stack' = << Frame(resource_type, << >>, 0, << >>) >>
  /\ pc' = "flatten"
  /\ UNCHANGED << columns, column_paths, reached, unique_columns, seen, col,
                  case_vars, type_vars,
                  generator_vars >>

\* lines 811-813: no column at all ends the program
NoColumns ==
  /\ pc = "main"
  /\ columns = << >>
  /\ pc' = "exit"
  /\ UNCHANGED << model_cls, config, stack, columns, column_paths, reached,
                  unique_columns, seen, col, case_vars, type_vars,
                  generator_vars >>

\* lines 816-817
BeginDedup ==
  /\ pc = "main"
  /\ columns # << >>
  /\ unique_columns' = << >>
  /\ seen' = {}
  /\ col' = 1
  /\ pc' = "dedup"
  /\ UNCHANGED << model_cls, config, stack, columns, column_paths, reached, case_vars, type_vars,
                  generator_vars >>

\* a loop that never records what it has seen
DedupStep_forgetful ==
  /\ pc = "dedup"
  /\ col <= Len(columns)
  /\ IF columns[col] \notin seen
     THEN /\ seen' = seen
          /\ unique_columns' = Append(unique_columns, columns[col])
     ELSE UNCHANGED << seen, unique_columns >>
  /\ col' = col + 1
  /\ UNCHANGED << model_cls, config, stack, columns, column_paths, reached, pc,
                  case_vars, type_vars,
                  generator_vars >>

\* lines 818-821: one turn of the loop over columns
DedupStep ==
  /\ pc = "dedup"
  /\ col <= Len(columns)
  /\ IF columns[col] \notin seen
     THEN /\ seen' = seen \cup {columns[col]}
          /\ unique_columns' = Append(unique_columns, columns[col])
     ELSE UNCHANGED << seen, unique_columns >>
  /\ col' = col + 1
  /\ UNCHANGED << model_cls, config, stack, columns, column_paths, reached, pc,
                  case_vars, type_vars,
                  generator_vars >>

\* line 823: the loop is over
DedupDone ==
  /\ pc = "dedup"
  /\ col > Len(columns)
  /\ pc' = "unique"
  /\ UNCHANGED << model_cls, config, stack, columns, column_paths, reached,
                  unique_columns, seen, col, case_vars, type_vars,
                  generator_vars >>

(***************************************************************************)
(* The program: main, before it has loaded its configuration.              *)
(***************************************************************************)
Init ==
  /\ model_cls = "None"
  /\ config = [resource_type |-> "None"]
  /\ stack = << >>
  /\ columns = << >>
  /\ column_paths = << >>
  /\ reached = {}
  /\ unique_columns = << >>
  /\ seen = {}
  /\ col = 1
  /\ pc = "start"
  /\ name = << >>
  /\ applied = << >>
  /\ values = << >>
  /\ field_type = << >>
  /\ unwrap_returned = << >>
  /\ resource_name = << >>
  /\ counter = 0
  /\ used_ids = {}
  /\ calls = << >>

Next ==
  \/ LoadConfig
  \/ DepthCutoff
  \/ Enter
  \/ SkipExcluded
  \/ SkipNotIncluded
  \/ EmitPrimitiveList
  \/ BeginItems
  \/ ItemRecurse
  \/ ItemLeaf
  \/ EndItems
  \/ Recurse
  \/ EmitLeaf
  \/ ReturnColumns
  \/ NoColumns
  \/ BeginDedup
  \/ DedupStep
  \/ DedupDone

Spec == Init /\ [][Next]_vars

\* flatten_schema and the loop of main run without waiting for anything
FairSpec == Spec /\ WF_vars(Next)

(***************************************************************************)
(* The naming transforms on their own: a string of at most MaxLen          *)
(* characters, and apply_case_style applied to it and again to the result. *)
(***************************************************************************)
CaseAlphabet == {"a", "b", "A", "B", "_", "0"}

\* lower-case words of two letters or more
Words == UNION {[1..n -> {"a", "b"}] : n \in 2..MaxWordLen}

\* the words of ws with "_" between them
RECURSIVE underscored(_)
underscored(ws) ==
  IF Len(ws) = 1 THEN ws[1] ELSE ws[1] \o << "_" >> \o underscored(Tail(ws))

\* identifiers of lower-case words joined by "_"
Identifiers == {underscored(ws) : ws \in UNION {[1..n -> Words] : n \in 1..MaxWords}}

patientGivenName ==
  << "p", "a", "t", "i", "e", "n", "t", "G", "i", "v", "e", "n", "N", "a", "m", "e" >>

patient_given_name ==
  << "p", "a", "t", "i", "e", "n", "t", "_", "g", "i", "v", "e", "n", "_",
     "n", "a", "m", "e" >>

PatientGivenName ==
  << "P", "a", "t", "i", "e", "n", "t", "G", "i", "v", "e", "n", "N", "a", "m", "e" >>

Names ==
  UNION {[1..n -> CaseAlphabet] : n \in 0..MaxLen}
    \cup Identifiers \cup {patientGivenName, patient_given_name}

ApplyCaseStyle ==
  /\ pc = "case"
  /\ Len(applied) < 2
  /\ \E style \in Styles :
       /\ applied' = Append(applied, style)
       /\ values' = Append(values,
                           apply_case_style(IF values = << >> THEN name
                                            ELSE values[Len(values)], style))
  /\ UNCHANGED << name, flatten_vars, type_vars, generator_vars >>

InitCase ==
  /\ name \in Names
  /\ applied = << >>
  /\ values = << >>
  /\ model_cls = "None"
  /\ config = [resource_type |-> "None"]
  /\ stack = << >>
  /\ columns = << >>
  /\ column_paths = << >>
  /\ reached = {}
  /\ unique_columns = << >>
  /\ seen = {}
  /\ col = 1
  /\ pc = "case"
  /\ field_type = << >>
  /\ unwrap_returned = << >>
  /\ resource_name = << >>
  /\ counter = 0
  /\ used_ids = {}
  /\ calls = << >>

NextCase == ApplyCaseStyle

SpecCase == InitCase /\ [][NextCase]_vars

(***************************************************************************)
(* unwrap_optional_and_list on its own: a type hint of at most MaxWrappers *)
(* Optional and List wrappers, in any order, around a base type.           *)
(***************************************************************************)
Wrappers == {"Optional", "List"}

BaseTypes == {"str", "int", "Patient", "Any"}

TypeHints ==
  {w \o << b >> : w \in UNION {[1..n -> Wrappers] : n \in 0..MaxWrappers},
                  b \in BaseTypes}

UnwrapOptionalAndList ==
  /\ pc = "unwrap"
  /\ unwrap_returned = << >>
  /\ unwrap_returned' = << unwrap_optional_and_list(field_type) >>
  /\ UNCHANGED << field_type, flatten_vars, case_vars, generator_vars >>

InitUnwrap ==
  /\ field_type \in TypeHints
  /\ unwrap_returned = << >>
  /\ model_cls = "None"
  /\ config = [resource_type |-> "None"]
  /\ stack = << >>
  /\ columns = << >>
  /\ column_paths = << >>
  /\ reached = {}
  /\ unique_columns = << >>
  /\ seen = {}
  /\ col = 1
  /\ pc = "unwrap"
  /\ name = << >>
  /\ applied = << >>
  /\ values = << >>
  /\ resource_name = << >>
  /\ counter = 0
  /\ used_ids = {}
  /\ calls = << >>

NextUnwrap == UnwrapOptionalAndList

SpecUnwrap == InitUnwrap /\ [][NextUnwrap]_vars

(***************************************************************************)
(* FHIRDataGenerator: one generator, and generate_value called on it at    *)
(* most MaxCalls times with column names of any kind.                      *)
(***************************************************************************)
ResourceNames ==
  { << "P", "a", "t", "i", "e", "n", "t" >>, << "N", "o", "d", "e" >> }

n_resource_type ==
  << "r", "e", "s", "o", "u", "r", "c", "e", "_", "t", "y", "p", "e" >>

ColumnNames ==
  { << "i", "d" >>, << "I", "d" >>, << "a", "_", "i", "d" >>,
    << "A", "_", "I", "D" >>, << "a", "i", "d" >>, n_resource_type }

\* what the branches of lines 591-673 return: values drawn at random
OtherValues == { << "x" >>, << "y" >> }

\* str.lower()
lower_str(s) == [i \in DOMAIN s |-> lower(s[i])]

\* str.endswith(suffix)
endswith(s, suffix) ==
  /\ Len(s) >= Len(suffix)
  /\ SubSeq(s, Len(s) - Len(suffix) + 1, Len(s)) = suffix

\* f"{n:06d}"
format_06d(n) ==
  IF Len(str(n)) >= 6 THEN str(n)
  ELSE [i \in 1..(6 - Len(str(n))) |-> "0"] \o str(n)

\* line 581: f"{self.resource_name.lower()}-{self.counter:06d}"
base_id(c) == lower_str(resource_name) \o << "-" >> \o format_06d(c)

\* lines 582-584: the counter the while loop stops at, entered with counter c
RECURSIVE free_counter(_)
free_counter(c) == IF base_id(c) \in used_ids THEN free_counter(c + 1) ELSE c

\* line 580
is_id_column(lowered) ==
  lowered = << "i", "d" >> \/ endswith(lowered, << "_", "i", "d" >>)

\* a call that leaves the counter as it found it
not_incremented == counter

\* line 577: self.counter += 1
incremented == counter + 1

GenerateValue ==
  /\ pc = "generate"
  /\ Len(calls) < MaxCalls
  /\ \E column \in ColumnNames :
       IF is_id_column(lower_str(column))
       THEN /\ counter' = free_counter(incremented)
            /\ used_ids' = used_ids \cup {base_id(counter')}
            /\ calls' = Append(calls, [column_name |-> column,
                                       value |-> base_id(counter'),
                                       before |-> counter, after |-> counter'])
       ELSE /\ counter' = incremented
            /\ used_ids' = used_ids
            /\ \E value \in (IF lower_str(column) = n_resource_type
                             THEN {resource_name} ELSE OtherValues) :
                 calls' = Append(calls, [column_name |-> column,
                                         value |-> value,
                                         before |-> counter, after |-> counter'])
  /\ UNCHANGED << resource_name, flatten_vars, case_vars, type_vars >>

\* lines 570-573: FHIRDataGenerator(resource_name)
InitGenerator ==
  /\ resource_name \in ResourceNames
  /\ counter = 0
  /\ used_ids = {}
  /\ calls = << >>
  /\ model_cls = "None"
  /\ config = [resource_type |-> "None"]
  /\ stack = << >>
  /\ columns = << >>
  /\ column_paths = << >>
  /\ reached = {}
  /\ unique_columns = << >>
  /\ seen = {}
  /\ col = 1
  /\ pc = "generate"
  /\ name = << >>
  /\ applied = << >>
  /\ values = << >>
  /\ field_type = << >>
  /\ unwrap_returned = << >>

NextGenerator == GenerateValue

SpecGenerator == InitGenerator /\ [][NextGenerator]_vars

(***************************************************************************)
(* C1.  For every string x and every style s of snake, camel and pascal,   *)
(* apply_case_style(apply_case_style(x, s), s) = apply_case_style(x, s).   *)
(* The converters to camel and Pascal case do not keep it: pascal turns    *)
(* "a_b" into "AB" and "AB" into "Ab".                                     *)
(***************************************************************************)
C1_CaseIdempotent ==
  (/\ Len(applied) = 2
   /\ applied[1] = applied[2]
   /\ applied[1] \in {"snake", "camel", "pascal"})
  => values[2] = values[1]

(***************************************************************************)
(* What the properties below observe.                                      *)
(***************************************************************************)
\* flatten_schema has returned to main
Flattened == pc \in {"main", "exit", "dedup", "unique"}

Max(a, b) == IF a > b THEN a ELSE b

RECURSIVE Power(_, _)
Power(b, e) == IF e <= 0 THEN 1 ELSE b * Power(b, e - 1)

\* the largest number of fields of a model class whose fields were iterated
FanOut ==
  IF reached = {} THEN 0
  ELSE CHOOSE n \in {Len(get_model_fields(c)) : c \in reached} :
         \A c \in reached : Len(get_model_fields(c)) <= n

\* the field a step of a path went through, and its name
StepField(st) == get_model_fields(st.cls)[st.f]
StepName(st) == StepField(st).name
StepType(st) == unwrap_optional_and_list(get_field_type(StepField(st)))

\* every path recorded so far: of the pending calls, of their columns, of the result
AllPaths ==
  {stack[k].path : k \in DOMAIN stack}
    \cup UNION {{stack[k].paths[j] : j \in DOMAIN stack[k].paths} : k \in DOMAIN stack}
    \cup {column_paths[j] : j \in DOMAIN column_paths}

\* A level is one activation past its cutoff: its class, its depth, the number
\* of its fields the loop is through with, the columns it has so far and their
\* paths.  The returned result is the level of the root activation.
Levels ==
  {[cls |-> stack[k].model_cls, depth |-> stack[k].depth,
    done |-> stack[k].field - 1, paths |-> stack[k].paths,
    columns |-> stack[k].columns] :
     k \in {k \in DOMAIN stack : stack[k].at # "entry"}}
    \cup (IF Flattened /\ model_cls \in reached
          THEN {[cls |-> model_cls, depth |-> 0,
                 done |-> Len(get_model_fields(model_cls)), paths |-> column_paths,
                 columns |-> columns]}
          ELSE {})

LevelField(L, k) == get_model_fields(L.cls)[k]
LevelType(L, k) == unwrap_optional_and_list(get_field_type(LevelField(L, k)))

\* field k of level L is in no filter's way
LevelPasses(L, k) ==
  /\ LevelField(L, k).name \notin exclude_fields
  /\ (L.depth = 0 /\ include_fields # {}) => LevelField(L, k).name \in include_fields

\* the columns of level L that came from its field k
LevelColumns(L, k) == {j \in DOMAIN L.paths : L.paths[j][L.depth + 1].f = k}

(***************************************************************************)
(* C2.  For every model, the cyclic ones included, and every config,       *)
(* flatten_schema terminates, no call is made at a depth beyond max_depth, *)
(* and the number of columns returned is at most                           *)
(* (F * max(1, max_array_items)) ^ max_depth, F being the largest number   *)
(* of fields of a model reached.  A negative max_depth counts as 0.        *)
(***************************************************************************)
C2_DepthBounded ==
  \A k \in DOMAIN stack :
    /\ stack[k].depth = k - 1
    /\ stack[k].depth <= Max(max_depth, 0)

C2_CountBounded ==
  Flattened =>
    Len(columns) <= Power(FanOut * Max(1, max_array_items), Max(max_depth, 0))

C2_FlattenTerminatesBounded ==
  /\ <>Flattened
  /\ [](C2_DepthBounded /\ C2_CountBounded)

\* a cyclic model flattened to the full depth, with list items
C2_Witness ==
  /\ Flattened
  /\ model_cls = "Node"
  /\ max_depth = MaxDepth
  /\ max_array_items = MaxItems
  /\ Len(columns) > MaxItems

(***************************************************************************)
(* C3.  With max_depth 0 the call of flatten_schema at depth 0 returns the *)
(* empty list, whatever the model and the rest of the config.              *)
(***************************************************************************)
C3_ZeroDepthEmpty ==
  (Flattened /\ max_depth = 0) => columns = << >>

C3_Witness ==
  /\ pc = "exit"
  /\ max_depth = 0
  /\ max_array_items > 0
  /\ include_fields = {}
  /\ exclude_fields = {}
  /\ model_cls = "Record"

(***************************************************************************)
(* C4.  With max_array_items 0 and max_depth at least 1, no list-typed     *)
(* field gives a column, whether its inner type is primitive, a model or   *)
(* unrecognised, and every primitive field that is not a list and passes   *)
(* the filters gives exactly one column, at every level of the traversal.  *)
(***************************************************************************)
C4_NoItemsNoListColumns ==
  (max_array_items = 0 /\ max_depth >= 1) =>
    \A L \in Levels : \A k \in 1..L.done :
      /\ LevelType(L, k).is_list => LevelColumns(L, k) = {}
      /\ (/\ ~LevelType(L, k).is_list
          /\ is_primitive_type(LevelType(L, k).inner_type)
          /\ LevelPasses(L, k))
         => /\ Cardinality(LevelColumns(L, k)) = 1
            /\ \A j \in LevelColumns(L, k) : Len(L.paths[j]) = L.depth + 1

\* Record has lists of primitives, of models and of an unrecognised type beside
\* its primitive fields
C4_Witness ==
  /\ pc = "unique"
  /\ model_cls = "Record"
  /\ max_array_items = 0
  /\ max_depth >= 2
  /\ include_fields = {}
  /\ exclude_fields = {}
  /\ Len(columns) >= 2

Skipped == SkipExcluded \/ SkipNotIncluded

C6_SkippedIffNotIncluded ==
  [][AtField =>
       /\ (top.depth = 0 /\ include_fields # {})
          => (Skipped <=> field_name \notin include_fields)
       /\ (top.depth > 0 /\ field_name \notin exclude_fields) => ~Skipped]_vars

(***************************************************************************)
(* C6, amended.  With include_fields non-empty a field at depth 0 whose    *)
(* name is not in exclude_fields is skipped exactly when its name is not   *)
(* in include_fields; at depth > 0 no field outside exclude_fields is      *)
(* skipped, whether its name is in include_fields or not.                  *)
(***************************************************************************)
C6_InclusionAtDepthZeroOnly ==
  [][AtField =>
       /\ (top.depth = 0 /\ include_fields # {} /\ field_name \notin exclude_fields)
          => (Skipped <=> field_name \notin include_fields)
       /\ (top.depth > 0 /\ field_name \notin exclude_fields) => ~Skipped]_vars

\* a root field left out by include_fields, and a column of a sub-field, not
\* named in include_fields, of a root field that is
C6_Witness ==
  /\ pc = "unique"
  /\ include_fields # {}
  /\ \E k \in DOMAIN get_model_fields(model_cls) :
       get_model_fields(model_cls)[k].name \notin include_fields \cup exclude_fields
  /\ \E j \in DOMAIN column_paths :
       /\ Len(column_paths[j]) >= 2
       /\ StepName(column_paths[j][1]) \in include_fields
       /\ StepName(column_paths[j][2]) \notin include_fields

(***************************************************************************)
(* C7.  For the model {name: primitive, address: list of {line:            *)
(* primitive}} and max_depth 2, max_array_items 2, separator "_", case     *)
(* snake, flatten_schema returns "name", "address_0_line",                 *)
(* "address_1_line", in that order.                                        *)
(***************************************************************************)
Scenario(depth) ==
  /\ model_cls = "Patient"
  /\ max_depth = depth
  /\ max_array_items = 2
  /\ separator = << "_" >>
  /\ case_style = "snake"
  /\ include_fields = {}
  /\ exclude_fields = {}

C7_ScenarioColumns ==
  (Flattened /\ Scenario(2)) =>
    columns =
      << << "n", "a", "m", "e" >>,
         << "a", "d", "d", "r", "e", "s", "s", "_", "0", "_", "l", "i", "n", "e" >>,
         << "a", "d", "d", "r", "e", "s", "s", "_", "1", "_", "l", "i", "n", "e" >> >>

C7_Witness == pc = "unique" /\ Scenario(2) /\ Len(unique_columns) = 3

(***************************************************************************)
(* C8.  A field whose inner type is a model, list or not, met at depth     *)
(* max_depth - 1 gives no column at all, neither for itself nor indexed;   *)
(* the model of C7 with max_depth 1 and max_array_items 2 gives "name"     *)
(* alone.                                                                  *)
(***************************************************************************)
C8_NothingBelowCutoff ==
  /\ \A L \in Levels :
       L.depth = max_depth - 1 =>
         \A k \in DOMAIN get_model_fields(L.cls) :
           is_pydantic_model(LevelType(L, k).inner_type) => LevelColumns(L, k) = {}
  /\ (Flattened /\ Scenario(1)) => columns = << << "n", "a", "m", "e" >> >>

C8_Witness == pc = "unique" /\ Scenario(1) /\ Len(unique_columns) = 1

(***************************************************************************)
(* C9.  The columns come in a fixed order: the fields in the model's own   *)
(* order, depth first, and for a list field the indices                    *)
(* 0..max_array_items-1 ascending, all columns of one index before any of  *)
(* the next.  A list of primitives or of an unrecognised type has exactly  *)
(* one column per index; a list of models has the columns of every index   *)
(* or of none.                                                             *)
(***************************************************************************)
\* path p comes before path q: where they first part, p takes the earlier
\* field, or the same field at the lower index
PathBefore(p, q) ==
  \E m \in 1..(IF Len(p) < Len(q) THEN Len(p) ELSE Len(q)) :
    /\ \A n \in 1..(m - 1) : p[n] = q[n]
    /\ p[m].cls = q[m].cls
    /\ \/ p[m].f < q[m].f
       \/ (p[m].f = q[m].f /\ p[m].i < q[m].i)

\* the list indices under which field k of level L has columns
LevelIndices(L, k) == {L.paths[j][L.depth + 1].i : j \in LevelColumns(L, k)}

C9_ColumnOrder ==
  \A L \in Levels :
    /\ \A j \in 1..(Len(L.paths) - 1) : PathBefore(L.paths[j], L.paths[j + 1])
    /\ \A k \in 1..L.done :
         IF LevelType(L, k).is_list
         THEN IF is_pydantic_model(LevelType(L, k).inner_type)
              THEN LevelIndices(L, k) \in {{}, 0..(max_array_items - 1)}
              ELSE LevelPasses(L, k) =>
                     /\ LevelIndices(L, k) = 0..(max_array_items - 1)
                     /\ Cardinality(LevelColumns(L, k)) = Max(max_array_items, 0)
         ELSE LevelIndices(L, k) \subseteq {-1}

\* a list inside a list, both at their second index, after an earlier field
C9_Witness ==
  /\ pc = "unique"
  /\ \E j \in DOMAIN column_paths :
       /\ Len(column_paths[j]) = 2
       /\ column_paths[j][1].f > 1
       /\ column_paths[j][1].i = 1
       /\ column_paths[j][2].i = 1

(***************************************************************************)
(* C10.  The de-duplication of main leaves a list without a repeated       *)
(* string, holding exactly the strings of the flattened list, in the order *)
(* of their first occurrence there; the same holds, of the part of the     *)
(* list gone through, at every turn of the loop.                           *)
(***************************************************************************)
FirstIndex(s, x) ==
  CHOOSE i \in DOMAIN s : s[i] = x /\ \A j \in 1..(i - 1) : s[j] # x

FirstOccurrences(u, c) ==
  /\ \A i, j \in DOMAIN u : i # j => u[i] # u[j]
  /\ {u[i] : i \in DOMAIN u} = {c[i] : i \in DOMAIN c}
  /\ \A i \in 1..(Len(u) - 1) : FirstIndex(c, u[i]) < FirstIndex(c, u[i + 1])

C10_DedupFirstOccurrence ==
  /\ pc = "dedup" => FirstOccurrences(unique_columns, SubSeq(columns, 1, col - 1))
  /\ pc = "unique" => FirstOccurrences(unique_columns, columns)

\* a flattened list in which a string occurs twice, with others after it
C10_Witness ==
  /\ pc = "unique"
  /\ Len(unique_columns) < Len(columns)
  /\ \E i \in DOMAIN columns :
       /\ \E j \in 1..(i - 1) : columns[j] = columns[i]
       /\ \E j \in (i + 1)..Len(columns) : \A k \in 1..(j - 1) : columns[k] # columns[j]

(***************************************************************************)
(* C11.  to_snake_case(name) is the string got by putting "_" before each  *)
(* upper-case letter that is not the first character and has a lower-case  *)
(* letter before it or after it, and lower-casing every character.  The    *)
(* result holds no upper-case letter, and "" gives "".                     *)
(***************************************************************************)
\* the positions of x before which the rule puts "_"
UnderscoreBefore(x) ==
  {i \in DOMAIN x :
     /\ isupper(x[i])
     /\ i # 1
     /\ \/ islower(x[i - 1])
        \/ (i < Len(x) /\ islower(x[i + 1]))}

\* the rule applied to the characters of x from position i on
RECURSIVE SnakeReference(_, _)
SnakeReference(x, i) ==
  IF i > Len(x) THEN << >>
  ELSE (IF i \in UnderscoreBefore(x) THEN << "_" >> ELSE << >>)
         \o << lower(x[i]) >> \o SnakeReference(x, i + 1)

C11_SnakeIsReference ==
  (Len(applied) >= 1 /\ applied[1] = "snake") =>
    /\ values[1] = SnakeReference(name, 1)
    /\ \A i \in DOMAIN values[1] : ~isupper(values[1][i])
    /\ name = << >> => values[1] = << >>

\* an upper-case letter after an upper-case one and before a lower-case one
C11_Witness ==
  /\ applied = << "snake" >>
  /\ name = << "A", "B", "a" >>
  /\ values = << << "a", "_", "b", "a" >> >>

(***************************************************************************)
(* C12.  snake of "patientGivenName" is "patient_given_name"; pascal of    *)
(* "patient_given_name" is "PatientGivenName" and camel of it is           *)
(* "patientGivenName"; an identifier of lower-case words of two letters or *)
(* more joined by "_" comes back unchanged from camel or pascal followed   *)
(* by snake.                                                               *)
(***************************************************************************)
C12_DocumentedAndRoundTrip ==
  /\ (Len(applied) >= 1 /\ name = patientGivenName /\ applied[1] = "snake")
     => values[1] = patient_given_name
  /\ (Len(applied) >= 1 /\ name = patient_given_name /\ applied[1] = "pascal")
     => values[1] = PatientGivenName
  /\ (Len(applied) >= 1 /\ name = patient_given_name /\ applied[1] = "camel")
     => values[1] = patientGivenName
  /\ (/\ Len(applied) = 2
      /\ name \in Identifiers
      /\ applied[1] \in {"camel", "pascal"}
      /\ applied[2] = "snake")
     => values[2] = name

\* a two-word identifier through camel, which changes it, and back
C12_Witness ==
  /\ applied = << "camel", "snake" >>
  /\ name = << "a", "b", "_", "b", "a", "a" >>
  /\ values = << << "a", "b", "B", "a", "a" >>, name >>

(***************************************************************************)
(* C13.  A negative max_depth or max_array_items counts as 0: with         *)
(* max_depth < 0 flatten_schema returns what it returns for the same       *)
(* arguments with max_depth 0, which is the empty list, and with           *)
(* max_array_items < 0 what it returns with max_array_items 0.             *)
(***************************************************************************)
\* the configuration cfg with the value of key in its schema section set to 0
WithZero(cfg, key) == [cfg EXCEPT !.schema = [@ EXCEPT ![key] = 0]]

C13_NegativeAsZero ==
  /\ (Flattened /\ max_depth < 0) =>
       /\ columns = flatten_schema(model_cls, WithZero(config, "max_depth"), << >>, 0)
       /\ columns = << >>
  /\ (Flattened /\ max_array_items < 0) =>
       columns = flatten_schema(model_cls, WithZero(config, "max_array_items"), << >>, 0)

\* a negative max_array_items in a run that returned columns, of a model
\* with list fields, from two levels
C13_Witness ==
  /\ pc = "unique"
  /\ max_array_items < 0
  /\ model_cls = "Record"
  /\ \E j \in DOMAIN column_paths : Len(column_paths[j]) = 2
  /\ columns = flatten_schema(model_cls, WithZero(config, "max_array_items"), << >>, 0)

(***************************************************************************)
(* The raw string of a path: the names of its fields, each followed by its *)
(* list index where it has one, joined by the separator.                   *)
(***************************************************************************)
RawStep(st) ==
  IF st.i >= 0 THEN StepName(st) \o separator \o str(st.i) ELSE StepName(st)

RECURSIVE RawPath(_)
RawPath(p) ==
  IF p = << >> THEN << >>
  ELSE IF Len(p) = 1 THEN RawStep(p[1])
  ELSE RawPath(SubSeq(p, 1, Len(p) - 1)) \o separator \o RawStep(p[Len(p)])

(***************************************************************************)
(* C14.  A field whose inner type is neither a primitive nor a model, and  *)
(* that passes the filters, is never recursed into: not in a list it gives *)
(* exactly one column, in a list one column for each index                 *)
(* 0..max_array_items-1, each the case-transformed name of the field, or   *)
(* of the field and the index, under the prefix.                           *)
(***************************************************************************)
Unresolved(t) == ~is_primitive_type(t) /\ ~is_pydantic_model(t)

C14_UnresolvedIsLeaf ==
  /\ \A k \in DOMAIN stack :
       stack[k].path # << >> =>
         ~Unresolved(StepType(stack[k].path[Len(stack[k].path)]).inner_type)
  /\ \A L \in Levels : \A k \in 1..L.done :
       (LevelPasses(L, k) /\ Unresolved(LevelType(L, k).inner_type)) =>
         /\ Cardinality(LevelColumns(L, k)) =
              IF LevelType(L, k).is_list THEN Max(max_array_items, 0) ELSE 1
         /\ LevelIndices(L, k) =
              IF LevelType(L, k).is_list THEN 0..(max_array_items - 1) ELSE {-1}
         /\ \A j \in LevelColumns(L, k) :
              /\ Len(L.paths[j]) = L.depth + 1
              /\ L.columns[j] = apply_case_style(RawPath(L.paths[j]), case_style)

\* a field without type information, a list of Any at the root and a list
\* without arguments one level down, each with its columns
C14_Witness ==
  /\ pc = "unique"
  /\ model_cls = "Record"
  /\ max_array_items = 2
  /\ \E j \in DOMAIN column_paths :
       /\ Len(column_paths[j]) = 1
       /\ StepName(column_paths[j][1]) = n_meta
  /\ \E j \in DOMAIN column_paths :
       /\ Len(column_paths[j]) = 1
       /\ StepName(column_paths[j][1]) = n_items
       /\ column_paths[j][1].i = 1
  /\ \E j \in DOMAIN column_paths :
       /\ Len(column_paths[j]) = 2
       /\ StepType(column_paths[j][2]).inner_type = << "List" >>
       /\ column_paths[j][2].i = 1

(***************************************************************************)
(* C15.  As claimed: unwrap_optional_and_list returns is_optional true     *)
(* whenever an Optional layer is present anywhere among the wrappers, so   *)
(* that Optional[List[T]] and List[Optional[T]] give the same triple.  The *)
(* is_optional of an element type is dropped at line 464: List[Optional[T]]*)
(* gives is_optional false.                                                *)
(***************************************************************************)
\* the wrappers of a type hint, outermost first
Layers(t) == SubSeq(t, 1, Len(t) - 1)

HasLayer(t, w) == \E i \in DOMAIN Layers(t) : t[i] = w

C15_OptionalAnywhere ==
  (unwrap_returned # << >> /\ HasLayer(field_type, "Optional"))
    => unwrap_returned[1].is_optional

(***************************************************************************)
(* C16.  For a type of Optional and List wrappers in any order around a    *)
(* base type T, unwrap_optional_and_list returns is_list true exactly when *)
(* one of the wrappers is a List, and inner_type T.                        *)
(***************************************************************************)
C16_ListAndInnerType ==
  unwrap_returned # << >> =>
    /\ unwrap_returned[1].is_list <=> HasLayer(field_type, "List")
    /\ unwrap_returned[1].inner_type = << field_type[Len(field_type)] >>

\* a List under an Optional, with an Optional element
C16_Witness ==
  /\ field_type = << "Optional", "List", "Optional", "Patient" >>
  /\ unwrap_returned =
       << [is_optional |-> TRUE, is_list |-> TRUE, inner_type |-> << "Patient" >>] >>

(***************************************************************************)
(* C17.  Every column flatten_schema returns is apply_case_style, applied  *)
(* once, of the raw string of its path: the names of the fields and the    *)
(* list indices from the root to the leaf joined by the separator.  The    *)
(* prefix of every recursive call is the raw string of the path to it,     *)
(* with no case transform applied.                                         *)
(***************************************************************************)
C17_ColumnIsCasedRawPath ==
  /\ \A k \in DOMAIN stack : stack[k].prefix = RawPath(stack[k].path)
  /\ pc = "main" =>
       \A j \in DOMAIN columns :
         columns[j] = apply_case_style(RawPath(column_paths[j]), case_style)

\* a column from under a list index whose case-transformed name is not its
\* raw string
C17_Witness ==
  /\ pc = "main"
  /\ case_style = "camel"
  /\ \E j \in DOMAIN columns :
       /\ Len(column_paths[j]) = 2
       /\ column_paths[j][1].i = 1
       /\ columns[j] # RawPath(column_paths[j])

(***************************************************************************)
(* C18.  On one generator, whatever the column names of the calls, the     *)
(* values returned for id columns (the name is "id" or ends in "_id", in   *)
(* any case) are pairwise distinct and all in used_ids, and every call     *)
(* leaves counter strictly greater than it found it.                       *)
(***************************************************************************)
IdCalls == {k \in DOMAIN calls : is_id_column(lower_str(calls[k].column_name))}

C18_IdsDistinctCounterGrows ==
  /\ \A j, k \in IdCalls : j # k => calls[j].value # calls[k].value
  /\ \A k \in IdCalls : calls[k].value \in used_ids
  /\ \A k \in DOMAIN calls : calls[k].after > calls[k].before
  /\ \A k \in 1..(Len(calls) - 1) : calls[k + 1].before = calls[k].after
  /\ calls # << >> => calls[Len(calls)].after = counter

\* two ids, the second asked for under a name in capitals, with a call for
\* another column between them
C18_Witness ==
  /\ Len(calls) = 3
  /\ calls[1].column_name = << "i", "d" >>
  /\ calls[2].column_name = << "a", "i", "d" >>
  /\ calls[3].column_name = << "A", "_", "I", "D" >>
  /\ calls[1].value =
       << "p", "a", "t", "i", "e", "n", "t", "-", "0", "0", "0", "0", "0", "1" >>
  /\ calls[3].value =
       << "p", "a", "t", "i", "e", "n", "t", "-", "0", "0", "0", "0", "0", "3" >>
  /\ counter = 3

=============================================================================
